---- MODULE Spec2Model ----
(***************************************************************************)
(* A model of close-stale-prs (src/src/stale-prs.ts): the StalePrFinder    *)
(* run loop, its fact extractors, the staleness classifier, the action     *)
(* resolver and the action executor, together with the pull requests of    *)
(* the hosting service it reads and writes.                                *)
(*                                                                         *)
(* Time is counted in whole days: a Date is a natural number of days and   *)
(* `days * 24 * 3600 * 1000` ms is `days`.  An optional value (`x | undefined`, *)
(* `null`, `''`) is a sequence of length at most one: None or Some(x).     *)
(* A text (comment body, message) is a sequence of fragments; `includes`   *)
(* and `replace` work on whole fragments.                                  *)
(***************************************************************************)
EXTENDS Integers, Sequences, FiniteSets, TLC

VARIABLES
  now,      \* Date.now(), in days
  props,    \* StalePrFinderProps of the finder
  repo,     \* the hosting service: pull number -> pull request and its facts
  queue,    \* findAll: the pulls of the running `for` loop still to visit
  metrics,  \* StalePrFinder.metrics
  lastRun,  \* the day of the latest invocation of findAll, -1 before the first
  events,   \* how many contributor/member/CI events and failed calls have happened
  last,     \* what the latest loop iteration observed and decided
  warnLog,  \* per pull: the verdicts for which a STALE PR comment was created
  inputs,   \* index.ts: the workflow's inputs, as core.getInput returns them
  failure   \* index.ts: the message given to core.setFailed by the latest run

vars == <<now, props, repo, queue, metrics, lastRun, events, last, warnLog,
          inputs, failure>>

-----------------------------------------------------------------------------
(* Bounds of the model *)

MaxTime == 7
MaxEvents == 2
MaxResults == 2
MaxTrail == 2

-----------------------------------------------------------------------------
(* Optional values and sequences *)

None == <<>>
Some(x) == <<x>>
IsSome(o) == o # <<>>

Reverse(s) == [i \in 1..Len(s) |-> s[Len(s) + 1 - i]]

Last(s) == s[Len(s)]

EmptyRecord == [k \in {} |-> None]

\* String.prototype.includes, on fragments
includes(body, fragment) == \E i \in DOMAIN body : body[i] = fragment

\* String.prototype.replace(/pattern/, by): the first match only
replace(text, pattern, by) ==
  IF includes(text, pattern)
  THEN LET i == CHOOSE j \in DOMAIN text :
                  /\ text[j] = pattern
                  /\ \A k \in 1..(j - 1) : text[k] # pattern
       IN [text EXCEPT ![i] = by]
  ELSE text

-----------------------------------------------------------------------------
(* Constants of the program *)

DefaultMergeConflictWarningDays == 3

Markers == <<"STALE PR", "MERGE CONFLICTS">>

marker(m) == "<!--" \o m \o "-->"

DefaultWarnMessage(reason) ==
  << "This PR has been in", reason, "for", ToString(props.staleDays),
     "days, and looks abandoned. It will be closed in", ToString(props.responseDays),
     "days if no further commits are pushed to it." >>

DefaultCloseMessage ==
  << "No more work is being done on this PR. It will now be closed." >>

DefaultMergeConflictWarning ==
  << "This PR cannot be merged because it has conflicts. Please resolve them. The PR will be considered stale and closed if it remains in an unmergeable state." >>

mergeConflictWarningDays ==
  IF IsSome(props.mergeConflictWarningDays)
  THEN props.mergeConflictWarningDays[1]
  ELSE DefaultMergeConflictWarningDays

-----------------------------------------------------------------------------
(* Age tests *)

\* variant: the age test made inclusive
olderThanDaysInclusive(t, days) == t + days <= now

olderThanDays(t, days) == t + days < now

stale(t) == olderThanDays(t, props.staleDays)

\* variant: the grace period measured with staleDays
outOfGracePeriodByStaleDays(t) == t + props.staleDays < now

outOfGracePeriod(t) == olderThanDays(t, props.responseDays)

-----------------------------------------------------------------------------
(* Fact extractors *)

\* x[timeKey] > ret[key][timeKey] on two optional ISO timestamps: a comparison
\* with null is false
laterThan(a, b) == IsSome(a) /\ IsSome(b) /\ a[1] > b[1]

RECURSIVE mostRecentFrom(_, _, _, _)
mostRecentFrom(ret, xs, idKey, timeKey) ==
  IF xs = <<>> THEN ret
  ELSE LET x == Head(xs)
           key == x[idKey]
           take == \/ key \notin DOMAIN ret
                   \/ laterThan(x[timeKey], ret[key][timeKey])
           ret2 == IF take
                   THEN [k \in DOMAIN ret \cup {key} |-> IF k = key THEN x ELSE ret[k]]
                   ELSE ret
       IN mostRecentFrom(ret2, Tail(xs), idKey, timeKey)

mostRecent(xs, idKey, timeKey) == mostRecentFrom(EmptyRecord, xs, idKey, timeKey)

failingChecks(pull) ==
  LET uniqueChecks == mostRecent(pull.check_runs, "name", "completed_at")
      failedChecks == { k \in DOMAIN uniqueChecks :
                          /\ uniqueChecks[k].conclusion = "failure"
                          /\ IsSome(uniqueChecks[k].completed_at) }
      uniqueStatuses == mostRecent(pull.statuses, "context", "updated_at")
      failedStatuses == { k \in DOMAIN uniqueStatuses :
                            /\ uniqueStatuses[k].state = "failure"
                            /\ IsSome(uniqueStatuses[k].updated_at) }
  IN [k \in failedChecks \cup failedStatuses |->
        IF k \in failedStatuses
        THEN [when |-> uniqueStatuses[k].updated_at[1]]
        ELSE [when |-> uniqueChecks[k].completed_at[1]]]

maxTime(xs) ==
  IF DOMAIN xs = {} THEN None
  ELSE Some(CHOOSE t \in {xs[k].when : k \in DOMAIN xs} :
              \A k \in DOMAIN xs : xs[k].when <= t)

\* variant: the pattern is not applied
importantChecksUnfiltered(checks) == checks

\* id.match(regex): a pattern is the set of names it matches
importantChecks(checks) ==
  [k \in {id \in DOMAIN checks : id \in props.importantChecksRegex[1]} |-> checks[k]]

buildFailTime(pull) ==
  IF IsSome(props.importantChecksRegex)
  THEN maxTime(importantChecks(failingChecks(pull)))
  ELSE maxTime(failingChecks(pull))

\* variant: the author's association is not looked at
isReviewOfAnyone(r) == TRUE

isMemberReview(r) == r.author_association = "MEMBER"

hasSubmittedAt(r) == "submitted_at" \in DOMAIN r /\ IsSome(r.submitted_at)

\* Array.prototype.sort((a, b) => a.submitted_at.localeCompare(b.submitted_at)):
\* stable, ascending
insertBySubmittedAt(s, r) ==
  LET k == Cardinality({i \in 1..Len(s) : s[i].submitted_at[1] <= r.submitted_at[1]})
  IN SubSeq(s, 1, k) \o <<r>> \o SubSeq(s, k + 1, Len(s))

RECURSIVE sortBySubmittedAt(_)
sortBySubmittedAt(s) ==
  IF s = <<>> THEN <<>>
  ELSE insertBySubmittedAt(sortBySubmittedAt(SubSeq(s, 1, Len(s) - 1)), Last(s))

isChangesRequestedReview(r) == r.state = "CHANGES_REQUESTED"

isApprovedReview(r) == r.state = "APPROVED"

memberReviews(pull) ==
  SelectSeq(SelectSeq(pull.reviews, isMemberReview), hasSubmittedAt)

reviewState(pull) ==
  LET sorted == sortBySubmittedAt(memberReviews(pull))
      cr == SelectSeq(sorted, isChangesRequestedReview)
      approved == SelectSeq(sorted, isApprovedReview)
  IN IF Len(cr) > 0
     THEN Some([state |-> "changes_requested", when |-> Last(cr).submitted_at[1]])
     ELSE IF Len(approved) > 0
     THEN Some([state |-> "approved", when |-> approved[1].submitted_at[1]])
     ELSE None

hasCommitterDate(c) == IsSome(c.date)

lastCommit(pull) ==
  LET commitTimes == SelectSeq(pull.commits, hasCommitterDate)
  IN IF commitTimes = <<>> THEN None ELSE Some(Last(commitTimes).date[1])

\* variant: every state but 'clean' counts as a conflict
hasMergeConflictsUnlessClean(pull) == pull.mergeable_state # "clean"

hasMergeConflicts(pull) == pull.mergeable_state = "dirty"

\* variant: `every` in place of `some`
hasSkipLabelOnEvery(labels) ==
  IF ~IsSome(props.skipLabels) THEN FALSE
  ELSE \A l \in labels : l \in props.skipLabels[1]

hasSkipLabel(labels) ==
  IF ~IsSome(props.skipLabels) THEN FALSE
  ELSE \E l \in labels : l \in props.skipLabels[1]

RECURSIVE mostRecentWarningsFrom(_, _)
mostRecentWarningsFrom(ret, comments) ==
  IF comments = <<>> THEN ret
  ELSE LET comment == Head(comments)
           found == { Markers[i] : i \in { j \in DOMAIN Markers :
                        /\ includes(comment.body, marker(Markers[j]))
                        /\ Markers[j] \notin DOMAIN ret } }
           ret2 == [m \in DOMAIN ret \cup found |->
                      IF m \in found THEN comment.created_at ELSE ret[m]]
       IN mostRecentWarningsFrom(ret2, Tail(comments))

\* variant: the comments are scanned oldest first
mostRecentWarningsOldestFirst(comments) == mostRecentWarningsFrom(EmptyRecord, comments)

mostRecentWarnings(comments) == mostRecentWarningsFrom(EmptyRecord, Reverse(comments))

isMemberComment(c) == c.author_association = "MEMBER"

memberComments(comments) ==
  SelectSeq(SelectSeq(comments, isMemberComment), hasSubmittedAt)

\* variant: the member reviews left out
memberReviewedByCommentsOnly(pull, comments) ==
  Len(memberComments(comments)) > 0

memberReviewed(pull, comments) ==
  Len(memberComments(comments)) > 0 \/ Len(memberReviews(pull)) > 0

-----------------------------------------------------------------------------
(* Staleness classifier: the if / else-if chain of findAll *)

changesRequestedStale(pull) ==
  /\ IsSome(reviewState(pull))
  /\ IsSome(lastCommit(pull))
  /\ stale(reviewState(pull)[1].when)

buildFailingStale(pull) ==
  /\ IsSome(buildFailTime(pull))
  /\ stale(buildFailTime(pull)[1])

\* variant: the merge-conflict flag is not consulted
mergeConflictsStaleWithoutFlag(pull) ==
  /\ IsSome(lastCommit(pull))
  /\ stale(lastCommit(pull)[1])

mergeConflictsStale(pull) ==
  /\ hasMergeConflicts(pull)
  /\ IsSome(lastCommit(pull))
  /\ stale(lastCommit(pull)[1])

staleVerdict(pull) ==
  IF changesRequestedStale(pull)
  THEN Some([reason |-> "CHANGES REQUESTED", since |-> reviewState(pull)[1].when])
  ELSE IF buildFailingStale(pull)
  THEN Some([reason |-> "BUILD FAILING", since |-> buildFailTime(pull)[1]])
  ELSE IF mergeConflictsStale(pull)
  THEN Some([reason |-> "MERGE CONFLICTS", since |-> lastCommit(pull)[1]])
  ELSE None

\* variant: the conflict warning is posted for a stale pull as well
mergeConflictWarningDueWhenStale(pull) ==
  /\ pull.mergeable_state = "dirty"
  /\ IsSome(lastCommit(pull))
  /\ mergeConflictWarningDays # 0
  /\ olderThanDays(lastCommit(pull)[1], mergeConflictWarningDays)

\* variant: the conflict warning is posted once only
mergeConflictWarningDueOnce(pull) ==
  /\ ~changesRequestedStale(pull)
  /\ ~buildFailingStale(pull)
  /\ pull.mergeable_state = "dirty"
  /\ ~mergeConflictsStale(pull)
  /\ IsSome(lastCommit(pull))
  /\ mergeConflictWarningDays # 0
  /\ olderThanDays(lastCommit(pull)[1], mergeConflictWarningDays)
  /\ \A i \in DOMAIN pull.comments : pull.comments[i].body # DefaultMergeConflictWarning

\* the branch of findAll that calls addMergeConflictWarning
mergeConflictWarningDue(pull) ==
  /\ ~changesRequestedStale(pull)
  /\ ~buildFailingStale(pull)
  /\ hasMergeConflicts(pull)
  /\ ~mergeConflictsStale(pull)
  /\ IsSome(lastCommit(pull))
  /\ mergeConflictWarningDays # 0
  /\ olderThanDays(lastCommit(pull)[1], mergeConflictWarningDays)

-----------------------------------------------------------------------------
(* Action resolver *)

staleWarning(warnings) ==
  IF "STALE PR" \in DOMAIN warnings THEN Some(warnings["STALE PR"]) ELSE None

\* variant: a warning older than the verdict's since still counts
beginsStalenessPeriodIgnoringSince(verdict, warning, reviewed) ==
  \/ ~IsSome(warning)
  \/ ~reviewed

beginsStalenessPeriod(verdict, warning, reviewed) ==
  \/ ~IsSome(warning)
  \/ warning[1] < verdict[1].since
  \/ ~reviewed

resolveAction(verdict, warning, reviewed) ==
  IF ~IsSome(verdict) THEN "nothing"
  ELSE IF beginsStalenessPeriod(verdict, warning, reviewed) THEN "warn"
  ELSE IF outOfGracePeriod(warning[1]) THEN "close"
  ELSE "nothing"

-----------------------------------------------------------------------------
(* Action executor: the write calls issued, in order *)

\* variant: the comment is created in a dry run too
addCommentAlways(body) == <<[op |-> "createComment", body |-> body]>>

addComment(body) ==
  IF props.dryRun THEN <<>> ELSE <<[op |-> "createComment", body |-> body]>>

addLabels(labels) ==
  IF props.dryRun THEN <<>> ELSE <<[op |-> "addLabels", labels |-> labels]>>

closeIssue ==
  IF props.dryRun THEN <<>> ELSE <<[op |-> "update", state |-> "closed"]>>

addMergeConflictWarning ==
  addComment(IF IsSome(props.mergeConflictWarning)
             THEN props.mergeConflictWarning[1]
             ELSE DefaultMergeConflictWarning)

\* variant: the warning is posted without its marker
warnBodyUnmarked(verdict) ==
  LET reason == IF IsSome(verdict) THEN verdict[1].reason ELSE ""
  IN IF IsSome(props.warnMessage)
     THEN replace(props.warnMessage[1], "STATE", reason)
     ELSE DefaultWarnMessage(reason)

warnBody(verdict) ==
  LET reason == IF IsSome(verdict) THEN verdict[1].reason ELSE ""
      message == IF IsSome(props.warnMessage)
                 THEN replace(props.warnMessage[1], "STATE", reason)
                 ELSE DefaultWarnMessage(reason)
  IN <<marker("STALE PR")>> \o message

\* variant: the closing comment carries the STALE PR marker
closeBodyMarked ==
  <<marker("STALE PR")>>
    \o (IF IsSome(props.closeMessage) THEN props.closeMessage[1] ELSE DefaultCloseMessage)

closeBody ==
  IF IsSome(props.closeMessage) THEN props.closeMessage[1] ELSE DefaultCloseMessage

\* variant: `case 'nothing'` falls through into `case 'warn'`
performActionFallingThrough(action, verdict) ==
  CASE action \in {"nothing", "warn"} -> addComment(warnBody(verdict))
    [] action = "close" ->
         addComment(closeBody)
           \o (IF IsSome(props.closeLabel) THEN addLabels({props.closeLabel[1]}) ELSE <<>>)
           \o closeIssue

\* variant: the pull is closed before the comment and the label
performActionClosingFirst(action, verdict) ==
  CASE action = "nothing" -> <<>>
    [] action = "warn" -> addComment(warnBody(verdict))
    [] action = "close" ->
         closeIssue
           \o addComment(closeBody)
           \o (IF IsSome(props.closeLabel) THEN addLabels({props.closeLabel[1]}) ELSE <<>>)

performAction(action, verdict) ==
  CASE action = "nothing" -> <<>>
    [] action = "warn" -> addComment(warnBody(verdict))
    [] action = "close" ->
         addComment(closeBody)
           \o (IF IsSome(props.closeLabel) THEN addLabels({props.closeLabel[1]}) ELSE <<>>)
           \o closeIssue

-----------------------------------------------------------------------------
(* The hosting service's side of the write calls *)

BotAssociation == "NONE"

applyCall(pull, call) ==
  CASE call.op = "createComment" ->
         [pull EXCEPT !.comments = Append(@, [ body |-> call.body,
                                               created_at |-> now,
                                               author_association |-> BotAssociation ])]
    [] call.op = "addLabels" -> [pull EXCEPT !.labels = @ \cup call.labels]
    [] call.op = "update" -> [pull EXCEPT !.open = (call.state # "closed")]

RECURSIVE applyCalls(_, _)
applyCalls(pull, calls) ==
  IF calls = <<>> THEN pull
  ELSE applyCalls(applyCall(pull, Head(calls)), Tail(calls))

\* pulls.list({state: 'open'}): newest first
RECURSIVE descending(_)
descending(S) ==
  IF S = {} THEN <<>>
  ELSE LET m == CHOOSE x \in S : \A y \in S : y <= x
       IN <<m>> \o descending(S \ {m})

\* variant: the pulls are listed whatever their state
listPullsOfAnyState == descending(DOMAIN repo)

listOpenPulls == descending({n \in DOMAIN repo : repo[n].open})

-----------------------------------------------------------------------------
(* Metrics and the record of the latest loop iteration *)

NoMetrics ==
  [ prsProcessed |-> 0, stalePrs |-> 0, staleDueToChangesRequested |-> 0,
    staleDueToBuildFailing |-> 0, staleDueToMergeConflicts |-> 0,
    warned |-> 0, closed |-> 0, skipped |-> 0 ]

\* variant: stalePrs is not counted
countVerdictWithoutTotal(m, verdict) ==
  IF ~IsSome(verdict) THEN m
  ELSE LET r == verdict[1].reason
       IN [m EXCEPT
             !.staleDueToChangesRequested = IF r = "CHANGES REQUESTED" THEN @ + 1 ELSE @,
             !.staleDueToBuildFailing = IF r = "BUILD FAILING" THEN @ + 1 ELSE @,
             !.staleDueToMergeConflicts = IF r = "MERGE CONFLICTS" THEN @ + 1 ELSE @]

countVerdict(m, verdict) ==
  IF ~IsSome(verdict) THEN m
  ELSE LET r == verdict[1].reason
       IN [m EXCEPT
             !.staleDueToChangesRequested = IF r = "CHANGES REQUESTED" THEN @ + 1 ELSE @,
             !.staleDueToBuildFailing = IF r = "BUILD FAILING" THEN @ + 1 ELSE @,
             !.staleDueToMergeConflicts = IF r = "MERGE CONFLICTS" THEN @ + 1 ELSE @,
             !.stalePrs = @ + 1]

countAction(m, action) ==
  [m EXCEPT !.warned = IF action = "warn" THEN @ + 1 ELSE @,
            !.closed = IF action = "close" THEN @ + 1 ELSE @]

\* the finder constructed directly from its props, not through index.ts
NoInputs == [k \in {} |-> None]

\* a pull request opened on day 0 with one commit, mergeable, nothing else yet
NewPull ==
  [ open |-> TRUE, labels |-> {}, mergeable_state |-> "clean",
    reviews |-> <<>>, commits |-> <<[date |-> Some(0)]>>, check_runs |-> <<>>,
    statuses |-> <<>>, comments |-> <<>> ]

\* pull 0: no iteration yet.  `seen` is the pull request as the iteration's
\* fetches returned it, `at` the day of the iteration, `reads` the fetches
\* issued for the pull, `failed` whether a write call threw
NoIteration ==
  [ pull |-> 0, at |-> 0, seen |-> NewPull, skipped |-> FALSE, verdict |-> None,
    warning |-> None, reviewed |-> FALSE, action |-> "nothing", calls |-> <<>>,
    reads |-> <<>>, failed |-> FALSE, error |-> None ]

\* the fetches of one iteration, in order: the facts, the comment trail, and
\* for a stale pull the fetches of memberReviewed
factReads ==
  << "checks.listForRef", "repos.listCommitStatusesForRef", "pulls.listReviews",
     "pulls.listCommits", "pulls.get" >>

warningReads == << "issues.listComments" >>

memberReviewedReads == << "pulls.listReviews", "issues.listComments" >>

readsOf(verdict) ==
  factReads \o warningReads \o (IF IsSome(verdict) THEN memberReviewedReads ELSE <<>>)

\* the member reviews and member comments of a pull, by author association
memberActivity(pull) ==
  Len(SelectSeq(pull.reviews, isMemberReview))
    + Len(SelectSeq(pull.comments, isMemberComment))

isStaleWarningCall(call) ==
  call.op = "createComment" /\ includes(call.body, marker("STALE PR"))

-----------------------------------------------------------------------------
(* findAll *)

\* variant: the listed pulls are not reversed
StartRunUnreversed ==
  /\ queue = <<>>
  /\ lastRun < now
  /\ lastRun' = now
  /\ queue' = listOpenPulls
  /\ metrics' = NoMetrics
  /\ failure' = None
  /\ UNCHANGED <<now, props, repo, events, last, warnLog, inputs>>

\* const pulls = await paginate(pulls.list, {state: 'open'}); pulls.reverse();
\* a new StalePrFinder, with fresh metrics, is constructed for every invocation
StartRun ==
  /\ queue = <<>>
  /\ lastRun < now
  /\ lastRun' = now
  /\ queue' = Reverse(listOpenPulls)
  /\ metrics' = NoMetrics
  /\ failure' = None
  /\ UNCHANGED <<now, props, repo, events, last, warnLog, inputs>>

\* one iteration of `for (const pull of pulls)`, performAction included
ProcessPull ==
  /\ queue # <<>>
  /\ LET number == Head(queue)
         pull == repo[number]
     IN IF hasSkipLabel(pull.labels)
        THEN /\ metrics' = [metrics EXCEPT !.prsProcessed = @ + 1, !.skipped = @ + 1]
             /\ last' = [NoIteration EXCEPT !.pull = number, !.at = now,
                                             !.seen = pull, !.skipped = TRUE]
             /\ UNCHANGED <<repo, warnLog>>
        ELSE LET verdict == staleVerdict(pull)
                 early == IF mergeConflictWarningDue(pull)
                          THEN addMergeConflictWarning ELSE <<>>
                 warned == applyCalls(pull, early)
                 warning == staleWarning(mostRecentWarnings(warned.comments))
                 reviewed == IsSome(verdict) /\ memberReviewed(warned, warned.comments)
                 action == resolveAction(verdict, warning, reviewed)
                 calls == performAction(action, verdict)
                 after == applyCalls(warned, calls)
             IN /\ metrics' = countAction(countVerdict(
                                 [metrics EXCEPT !.prsProcessed = @ + 1], verdict), action)
                /\ repo' = [repo EXCEPT ![number] = after]
                /\ last' = [ pull |-> number, at |-> now, seen |-> warned,
                             skipped |-> FALSE, verdict |-> verdict,
                             warning |-> warning, reviewed |-> reviewed,
                             action |-> action, calls |-> early \o calls,
                             reads |-> readsOf(verdict), failed |-> FALSE,
                             error |-> None ]
                /\ warnLog' = IF \E i \in DOMAIN calls : isStaleWarningCall(calls[i])
                              THEN [warnLog EXCEPT ![number] = Append(@,
                                      [ verdict |-> verdict, at |-> now,
                                        activity |-> memberActivity(pull) ])]
                              ELSE warnLog
  /\ queue' = Tail(queue)
  /\ UNCHANGED <<now, props, lastRun, events, inputs, failure>>

\* error.message of the error a rejected API call throws
ErrorMessages == {"Bad credentials", "Server Error"}

\* variant: the error is caught per pull and the loop goes on
afterFailureContinuing(remaining) == Tail(remaining)

\* the pulls the loop still visits once a call has thrown: the exception leaves
\* the `for` loop and findAll
afterFailure(remaining) == <<>>

\* an iteration in which a write call throws: the calls before it took effect,
\* the exception leaves findAll and ends the run (run().catch -> setFailed).
\* The counters are incremented before the calls of their branch.
ProcessPullInterrupted ==
  /\ queue # <<>>
  /\ events < MaxEvents
  /\ events' = events + 1
  /\ LET number == Head(queue)
         pull == repo[number]
     IN /\ ~hasSkipLabel(pull.labels)
        /\ LET verdict == staleVerdict(pull)
                early == IF mergeConflictWarningDue(pull)
                         THEN addMergeConflictWarning ELSE <<>>
                warned == applyCalls(pull, early)
                warning == staleWarning(mostRecentWarnings(warned.comments))
                reviewed == IsSome(verdict) /\ memberReviewed(warned, warned.comments)
                action == resolveAction(verdict, warning, reviewed)
                calls == performAction(action, verdict)
           IN \E done \in 0..(Len(early \o calls) - 1), message \in ErrorMessages :
                /\ failure' = Some(message)
                /\ IF done < Len(early)
                   THEN /\ metrics' = [metrics EXCEPT !.prsProcessed = @ + 1]
                        /\ repo' = [repo EXCEPT ![number] =
                                      applyCalls(pull, SubSeq(early, 1, done))]
                        /\ last' = [NoIteration EXCEPT
                                      !.pull = number, !.at = now, !.seen = pull,
                                      !.calls = SubSeq(early, 1, done),
                                      !.reads = factReads, !.failed = TRUE,
                                      !.error = Some(message)]
                        /\ UNCHANGED warnLog
                   ELSE LET issued == SubSeq(early \o calls, 1, done)
                        IN /\ metrics' = countAction(countVerdict(
                                            [metrics EXCEPT !.prsProcessed = @ + 1], verdict), action)
                           /\ repo' = [repo EXCEPT ![number] = applyCalls(pull, issued)]
                           /\ last' = [ pull |-> number, at |-> now, seen |-> warned,
                                        skipped |-> FALSE, verdict |-> verdict,
                                        warning |-> warning, reviewed |-> reviewed,
                                        action |-> action, calls |-> issued,
                                        reads |-> readsOf(verdict), failed |-> TRUE,
                                        error |-> Some(message) ]
                           /\ warnLog' = IF \E i \in DOMAIN issued : isStaleWarningCall(issued[i])
                                         THEN [warnLog EXCEPT ![number] = Append(@,
                                                 [ verdict |-> verdict, at |-> now,
                                                   activity |-> memberActivity(pull) ])]
                                         ELSE warnLog
  /\ queue' = afterFailure(queue)
  /\ UNCHANGED <<now, props, lastRun, inputs>>

\* an iteration in which a fetch throws: the `failing`-th fetch of the iteration.
\* A fetch of the facts fails before anything is counted or written; the fetch
\* of mostRecentWarnings fails after the reason's counter and the conflict
\* warning; a fetch of memberReviewed fails after stalePrs++ as well
ProcessPullFetchFails ==
  /\ queue # <<>>
  /\ events < MaxEvents
  /\ events' = events + 1
  /\ LET number == Head(queue)
         pull == repo[number]
     IN /\ ~hasSkipLabel(pull.labels)
        /\ LET verdict == staleVerdict(pull)
                early == IF mergeConflictWarningDue(pull)
                         THEN addMergeConflictWarning ELSE <<>>
                warned == applyCalls(pull, early)
                processed == [metrics EXCEPT !.prsProcessed = @ + 1]
           IN \E failing \in 1..Len(readsOf(verdict)), message \in ErrorMessages :
                /\ failure' = Some(message)
                /\ IF failing <= Len(factReads)
                   THEN /\ metrics' = processed
                        /\ last' = [NoIteration EXCEPT
                                      !.pull = number, !.at = now, !.seen = pull,
                                      !.reads = SubSeq(factReads, 1, failing),
                                      !.failed = TRUE, !.error = Some(message)]
                        /\ UNCHANGED repo
                   ELSE /\ metrics' = IF failing <= Len(factReads \o warningReads)
                                      THEN [countVerdict(processed, verdict) EXCEPT
                                              !.stalePrs = processed.stalePrs]
                                      ELSE countVerdict(processed, verdict)
                        /\ repo' = [repo EXCEPT ![number] = warned]
                        /\ last' = [NoIteration EXCEPT
                                      !.pull = number, !.at = now, !.seen = warned,
                                      !.verdict = verdict, !.calls = early,
                                      !.reads = SubSeq(readsOf(verdict), 1, failing),
                                      !.failed = TRUE, !.error = Some(message)]
  /\ queue' = afterFailure(queue)
  /\ UNCHANGED <<now, props, lastRun, warnLog, inputs>>

-----------------------------------------------------------------------------
(* The environment: time, contributors, members and CI *)

\* once the workflow is installed the scheduler invokes findAll once per day: a
\* day ends after its run
Tick ==
  /\ queue = <<>>
  /\ lastRun \in {-1, now}
  /\ now < MaxTime
  /\ now' = now + 1
  /\ UNCHANGED <<props, repo, queue, metrics, lastRun, events, last, warnLog,
                 inputs, failure>>

\* timestamps are whole days: what happens on a day happens before that day's
\* run, so that equal timestamps never hide the order of an event and a comment
Happens(number, pull) ==
  /\ queue = <<>>
  /\ lastRun < now
  /\ events < MaxEvents
  /\ repo[number].open
  /\ events' = events + 1
  /\ repo' = [repo EXCEPT ![number] = pull]
  /\ UNCHANGED <<now, props, queue, metrics, lastRun, last, warnLog, inputs, failure>>

ReviewInputs ==
  { [author_association |-> "MEMBER", state |-> "CHANGES_REQUESTED"],
    [author_association |-> "MEMBER", state |-> "APPROVED"],
    [author_association |-> "NONE", state |-> "CHANGES_REQUESTED"] }

SubmitReview ==
  \E number \in DOMAIN repo, review \in ReviewInputs :
    Happens(number, [repo[number] EXCEPT !.reviews = Append(@,
      [ author_association |-> review.author_association, state |-> review.state,
        submitted_at |-> Some(now) ])])

\* a push moves the head: the checks of the new head commit are yet to run
PushCommit ==
  \E number \in DOMAIN repo :
    Happens(number, [repo[number] EXCEPT !.commits = Append(@, [date |-> Some(now)]),
                                         !.check_runs = <<>>,
                                         !.statuses = <<>>])

CheckNames == {"build"}

Conclusions == {"failure", "success"}

CompleteCheckRun ==
  \E number \in DOMAIN repo, name \in CheckNames, conclusion \in Conclusions :
    Happens(number, [repo[number] EXCEPT !.check_runs = Append(@,
      [ name |-> name, conclusion |-> conclusion, completed_at |-> Some(now) ])])

MergeableStates == {"clean", "dirty"}

SetMergeable ==
  \E number \in DOMAIN repo, state \in MergeableStates :
    /\ state # repo[number].mergeable_state
    /\ Happens(number, [repo[number] EXCEPT !.mergeable_state = state])

MemberComment ==
  \E number \in DOMAIN repo :
    Happens(number, [repo[number] EXCEPT !.comments = Append(@,
      [ body |-> <<"Any update on this?">>, created_at |-> now,
        author_association |-> "MEMBER" ])])

\* every invocation constructs a new StalePrFinder with its own props: dryRun
\* may differ between two runs
SwitchDryRun ==
  /\ queue = <<>>
  /\ lastRun < now
  /\ events < MaxEvents
  /\ events' = events + 1
  /\ props' = [props EXCEPT !.dryRun = ~@]
  /\ UNCHANGED <<now, repo, queue, metrics, lastRun, last, warnLog, inputs, failure>>

-----------------------------------------------------------------------------
(* One pull request, followed over repeated non-dry-run invocations *)

StaleDaysInputs == {2}

ResponseDaysInputs == {1}

Init ==
  /\ now = 0
  /\ \E staleDays \in StaleDaysInputs, responseDays \in ResponseDaysInputs :
       props = [ staleDays |-> staleDays, responseDays |-> responseDays,
                 mergeConflictWarningDays |-> Some(1), mergeConflictWarning |-> None,
                 importantChecksRegex |-> None, skipLabels |-> None,
                 warnMessage |-> None, closeMessage |-> None,
                 closeLabel |-> Some("closed-for-staleness"), dryRun |-> FALSE ]
  /\ repo = [number \in {1} |-> NewPull]
  /\ queue = <<>>
  /\ metrics = NoMetrics
  /\ lastRun = -1
  /\ events = 0
  /\ last = NoIteration
  /\ warnLog = [number \in {1} |-> <<>>]
  /\ inputs = NoInputs
  /\ failure = None

Next ==
  \/ StartRun
  \/ ProcessPull
  \/ Tick
  \/ SubmitReview
  \/ PushCommit
  \/ CompleteCheckRun
  \/ SetMergeable
  \/ MemberComment

Spec == Init /\ [][Next]_vars

-----------------------------------------------------------------------------
(* One pull request whose head commit has check runs and commit statuses,    *)
(* as checks.listForRef and repos.listCommitStatusesForRef return them       *)

CheckNameInputs == {"build", "lint"}

\* a day on which a result may have been reported: not later than the first run
ResultTimes == 0..1

\* a check run in progress has neither a conclusion nor a completion time
CheckRunInputs ==
  [name : CheckNameInputs, conclusion : Conclusions, completed_at : {Some(t) : t \in ResultTimes}]
    \cup [name : CheckNameInputs, conclusion : {"null"}, completed_at : {None}]

StatusInputs ==
  [context : CheckNameInputs, state : {"failure", "success"},
   updated_at : {Some(t) : t \in ResultTimes}]

RECURSIVE SeqsUpTo(_, _)
SeqsUpTo(S, n) ==
  IF n = 0 THEN {<<>>}
  ELSE LET shorter == SeqsUpTo(S, n - 1)
       IN shorter \cup {Append(q, x) : q \in shorter, x \in S}

ImportantChecksRegexInputs == {None, Some({"build"})}

InitChecks ==
  /\ now = 1
  /\ \E regex \in ImportantChecksRegexInputs :
       props = [ staleDays |-> 2, responseDays |-> 1,
                 mergeConflictWarningDays |-> None, mergeConflictWarning |-> None,
                 importantChecksRegex |-> regex, skipLabels |-> None,
                 warnMessage |-> None, closeMessage |-> None,
                 closeLabel |-> None, dryRun |-> FALSE ]
  /\ \E check_runs \in SeqsUpTo(CheckRunInputs, MaxResults),
        statuses \in SeqsUpTo(StatusInputs, MaxResults) :
       /\ Len(check_runs) + Len(statuses) <= MaxResults
       /\ repo = [number \in {1} |->
                    [NewPull EXCEPT !.check_runs = check_runs, !.statuses = statuses]]
  /\ queue = <<>>
  /\ metrics = NoMetrics
  /\ lastRun = -1
  /\ events = 0
  /\ last = NoIteration
  /\ warnLog = [number \in {1} |-> <<>>]
  /\ inputs = NoInputs
  /\ failure = None

NextChecks ==
  \/ StartRun
  \/ ProcessPull
  \/ Tick

SpecChecks == InitChecks /\ [][NextChecks]_vars

-----------------------------------------------------------------------------
(* One pull request with unchanging facts under every configuration: the    *)
(* runs may be dry or not, and a write call may throw                       *)

StaleDaysConfigured == {2, 4}

MergeConflictWarningDaysConfigured == {None, Some(0), Some(1)}

SkipLabelsConfigured == {None, Some({"no-stale"})}

CloseLabelConfigured == {None, Some("closed-for-staleness")}

LabelInputs == {{}, {"bug"}, {"bug", "no-stale"}}

MergeableStateInputs == {"clean", "dirty", "unknown", "blocked"}

\* no review yet, or changes requested by a member on the day the pull was opened
ReviewsInputs ==
  { <<>>,
    << [ author_association |-> "MEMBER", state |-> "CHANGES_REQUESTED",
         submitted_at |-> Some(0) ] >> }

InitConfigured ==
  /\ now = 0
  /\ \E staleDays \in StaleDaysConfigured,
        warningDays \in MergeConflictWarningDaysConfigured,
        skipLabels \in SkipLabelsConfigured,
        closeLabel \in CloseLabelConfigured,
        dryRun \in BOOLEAN :
       props = [ staleDays |-> staleDays, responseDays |-> 1,
                 mergeConflictWarningDays |-> warningDays, mergeConflictWarning |-> None,
                 importantChecksRegex |-> None, skipLabels |-> skipLabels,
                 warnMessage |-> None, closeMessage |-> None,
                 closeLabel |-> closeLabel, dryRun |-> dryRun ]
  /\ \E labels \in LabelInputs, state \in MergeableStateInputs, reviews \in ReviewsInputs :
       repo = [number \in {1} |->
                 [NewPull EXCEPT !.labels = labels, !.mergeable_state = state,
                                 !.reviews = reviews]]
  /\ queue = <<>>
  /\ metrics = NoMetrics
  /\ lastRun = -1
  /\ events = 0
  /\ last = NoIteration
  /\ warnLog = [number \in {1} |-> <<>>]
  /\ inputs = NoInputs
  /\ failure = None

NextConfigured ==
  \/ StartRun
  \/ ProcessPull
  \/ ProcessPullInterrupted
  \/ Tick
  \/ SwitchDryRun

SpecConfigured == InitConfigured /\ [][NextConfigured]_vars

-----------------------------------------------------------------------------
(* index.ts: the finder constructed from the workflow's inputs.  An input    *)
(* read as a number or compiled as a pattern is a sequence of characters;    *)
(* a list of labels is a text of labels and "," fragments                    *)

Digits == <<"0", "1", "2", "3", "4", "5", "6", "7", "8", "9">>

isDigit(c) == \E i \in DOMAIN Digits : Digits[i] = c

digitValue(c) == (CHOOSE i \in DOMAIN Digits : Digits[i] = c) - 1

RECURSIVE skipWhitespace(_)
skipWhitespace(x) ==
  IF x # <<>> /\ Head(x) = " " THEN skipWhitespace(Tail(x)) ELSE x

RECURSIVE leadingDigits(_)
leadingDigits(x) ==
  IF x # <<>> /\ isDigit(Head(x)) THEN <<Head(x)>> \o leadingDigits(Tail(x)) ELSE <<>>

RECURSIVE valueOf(_)
valueOf(digits) ==
  IF digits = <<>> THEN 0
  ELSE 10 * valueOf(SubSeq(digits, 1, Len(digits) - 1)) + digitValue(Last(digits))

\* parseInt(x, 10): leading whitespace, an optional sign, the longest run of
\* digits; NaN (None) when there is no digit
parseInt(x) ==
  LET trimmed == skipWhitespace(x)
      signed == trimmed # <<>> /\ Head(trimmed) \in {"+", "-"}
      digits == leadingDigits(IF signed THEN Tail(trimmed) ELSE trimmed)
  IN IF digits = <<>> THEN None
     ELSE IF signed /\ Head(trimmed) = "-" THEN Some(0 - valueOf(digits))
     ELSE Some(valueOf(digits))

RECURSIVE digitsOf(_)
digitsOf(n) ==
  IF n < 10 THEN <<Digits[n + 1]>> ELSE digitsOf(n \div 10) \o <<Digits[(n % 10) + 1]>>

\* `${num}`
render(num) ==
  IF ~IsSome(num) THEN <<"N", "a", "N">>
  ELSE IF num[1] < 0 THEN <<"-">> \o digitsOf(0 - num[1])
  ELSE digitsOf(num[1])

\* variant: the rendering is not compared with the input
verifyIntOfPrefix(x) ==
  LET num == parseInt(x)
  IN IF ~IsSome(num)
     THEN [thrown |-> TRUE, message |-> <<"Not a number: ">> \o x]
     ELSE [thrown |-> FALSE, value |-> num[1]]

verifyInt(x) ==
  LET num == parseInt(x)
  IN IF render(num) # x
     THEN [thrown |-> TRUE, message |-> <<"Not a number: ">> \o x]
     ELSE [thrown |-> FALSE, value |-> num[1]]

\* the depth of open groups after each character of a pattern
RECURSIVE groupDepth(_)
groupDepth(pattern) ==
  IF pattern = <<>> THEN 0
  ELSE groupDepth(SubSeq(pattern, 1, Len(pattern) - 1))
         + (CASE Last(pattern) = "(" -> 1 [] Last(pattern) = ")" -> -1 [] OTHER -> 0)

\* the patterns of the model are literals and groups: one is a syntax error
\* when a group is closed that was not opened, or left open
isSyntaxError(pattern) ==
  \/ \E i \in DOMAIN pattern : groupDepth(SubSeq(pattern, 1, i)) < 0
  \/ groupDepth(pattern) # 0

isGroupCharacter(c) == c \in {"(", ")"}

isLiteralCharacter(c) == ~isGroupCharacter(c)

spelling(name) ==
  CASE name = "build" -> <<"b", "u", "i", "l", "d">>
    [] name = "lint" -> <<"l", "i", "n", "t">>

\* id.match(regex) for a pattern of literals and groups: the literal occurs
contains(text, literal) ==
  \E i \in 0..(Len(text) - Len(literal)) : SubSeq(text, i + 1, i + Len(literal)) = literal

\* new RegExp(source), as the set of check names it matches
newRegExp(source) ==
  IF isSyntaxError(source)
  THEN [thrown |-> TRUE, message |-> <<"Invalid regular expression: /">> \o source]
  ELSE [thrown |-> FALSE,
        value |-> { name \in CheckNameInputs :
                      contains(spelling(name), SelectSeq(source, isLiteralCharacter)) }]

isLabelFragment(fragment) == fragment # ","

\* skipLabels.split(',')
split(text) == { text[i] : i \in { j \in DOMAIN text : isLabelFragment(text[j]) } }

optional(text) == IF text = <<>> THEN None ELSE Some(text)

\* core.getInput(name, { required: true }) throws for an input not supplied
requiredInputMissing ==
  IF inputs.token = <<>> THEN Some(<<"Input required and not supplied: github-token">>)
  ELSE IF inputs.staleDays = <<>> THEN Some(<<"Input required and not supplied: stale-days">>)
  ELSE IF inputs.responseDays = <<>> THEN Some(<<"Input required and not supplied: response-days">>)
  ELSE None

\* the arguments of `new StalePrFinder(token, {...})`, evaluated in order: the
\* first one to throw ends run()
finderProps ==
  LET staleDays == verifyInt(inputs.staleDays)
      responseDays == verifyInt(inputs.responseDays)
      regex == IF inputs.importantChecksRegex = <<>>
               THEN [thrown |-> FALSE, value |-> {}]
               ELSE newRegExp(inputs.importantChecksRegex)
  IN IF IsSome(requiredInputMissing) THEN [thrown |-> TRUE, message |-> requiredInputMissing[1]]
     ELSE IF staleDays.thrown THEN staleDays
     ELSE IF responseDays.thrown THEN responseDays
     ELSE IF regex.thrown THEN regex
     ELSE [ thrown |-> FALSE,
            value |-> [ staleDays |-> staleDays.value, responseDays |-> responseDays.value,
                        mergeConflictWarningDays |-> None, mergeConflictWarning |-> None,
                        importantChecksRegex |-> IF inputs.importantChecksRegex = <<>>
                                                 THEN None ELSE Some(regex.value),
                        skipLabels |-> IF inputs.skipLabels = <<>>
                                       THEN None ELSE Some(split(inputs.skipLabels)),
                        warnMessage |-> optional(inputs.warnMessage),
                        closeMessage |-> optional(inputs.closeMessage),
                        closeLabel |-> IF inputs.closeLabel = <<>>
                                       THEN None ELSE Some(inputs.closeLabel[1]),
                        dryRun |-> FALSE ] ]

\* run(): read the inputs, construct the finder, and only then findAll, whose
\* first step lists the open pulls; an error thrown on the way is reported by
\* run().catch
Run ==
  /\ queue = <<>>
  /\ lastRun < now
  /\ lastRun' = now
  /\ IF finderProps.thrown
     THEN /\ failure' = Some(finderProps.message)
          /\ UNCHANGED <<props, queue, metrics>>
     ELSE /\ failure' = None
          /\ props' = finderProps.value
          /\ queue' = Reverse(listOpenPulls)
          /\ metrics' = NoMetrics
  /\ UNCHANGED <<now, repo, events, last, warnLog, inputs>>

\* no finder constructed yet
NoProps == [k \in {} |-> None]

StaleDaysTexts ==
  { <<"2">>, <<"0", "2">>, <<"2", "x">>, <<>>, <<"-", "1">>, <<"2", ".", "5">>,
    <<"+", "2">>, <<"a">>, <<"1", "0">> }

ResponseDaysTexts == { <<"1">>, <<"x", "1">>, <<"1", "e", "3">> }

ImportantChecksRegexTexts ==
  { <<>>, <<"l", "i", "n", "t">>, <<"(", "l", "i", "n", "t">>, <<"l", "i", "n", "t", ")">>,
    <<"(", "l", "i", ")", "n", "t">> }

SkipLabelsTexts == { <<>>, <<"wip", ",", "no-stale">> }

InitInputs ==
  /\ now = 0
  /\ props = NoProps
  /\ \E staleDays \in StaleDaysTexts, responseDays \in ResponseDaysTexts,
        regex \in ImportantChecksRegexTexts, skipLabels \in SkipLabelsTexts :
       inputs = [ token |-> <<"ghs_token">>, staleDays |-> staleDays,
                  responseDays |-> responseDays, importantChecksRegex |-> regex,
                  skipLabels |-> skipLabels, warnMessage |-> <<>>, closeMessage |-> <<>>,
                  closeLabel |-> <<>> ]
  /\ \E labels \in LabelInputs :
       repo = [number \in {1} |->
                 [NewPull EXCEPT !.labels = labels, !.mergeable_state = "dirty"]]
  /\ queue = <<>>
  /\ metrics = NoMetrics
  /\ lastRun = -1
  /\ events = 0
  /\ last = NoIteration
  /\ warnLog = [number \in {1} |-> <<>>]
  /\ failure = None

NextInputs ==
  \/ Run
  \/ ProcessPull
  \/ Tick

SpecInputs == InitInputs /\ [][NextInputs]_vars

-----------------------------------------------------------------------------
(* One pull request that already has reviews and a comment trail, as         *)
(* pulls.listReviews and issues.listComments return them                     *)

ReviewRecordInputs ==
  [author_association : {"MEMBER", "NONE"}, state : {"CHANGES_REQUESTED", "APPROVED"},
   submitted_at : {Some(t) : t \in ResultTimes}]

\* comments carrying the marker of a kind, of both kinds, or none
CommentBodyInputs ==
  { <<marker("STALE PR"), "This PR looks abandoned.">>,
    <<marker("MERGE CONFLICTS"), "This PR has conflicts.">>,
    <<marker("STALE PR"), marker("MERGE CONFLICTS")>>,
    <<"Any update on this?">> }

CommentInputs ==
  [body : CommentBodyInputs, created_at : ResultTimes, author_association : {"NONE"}]
    \cup [body : {<<"Any update on this?">>}, created_at : ResultTimes,
          author_association : {"MEMBER"}]

\* issues.listComments lists the comments in the order of their creation
inCreationOrder(comments) ==
  \A i, j \in DOMAIN comments : i < j => comments[i].created_at <= comments[j].created_at

WarnMessageInputs ==
  { None,
    Some(<<"This PR is", "STATE", "- please update it.">>),
    Some(<<"STATE", "for too long; STATE is:", "STATE">>) }

InitTrail ==
  /\ now = 1
  /\ \E warnMessage \in WarnMessageInputs :
       props = [ staleDays |-> 2, responseDays |-> 1,
                 mergeConflictWarningDays |-> None, mergeConflictWarning |-> None,
                 importantChecksRegex |-> None, skipLabels |-> None,
                 warnMessage |-> warnMessage, closeMessage |-> None,
                 closeLabel |-> None, dryRun |-> FALSE ]
  /\ \E reviews \in SeqsUpTo(ReviewRecordInputs, MaxTrail),
        comments \in SeqsUpTo(CommentInputs, MaxTrail),
        state \in MergeableStates :
       /\ Len(reviews) + Len(comments) <= MaxTrail
       /\ inCreationOrder(comments)
       /\ repo = [number \in {1} |->
                    [NewPull EXCEPT !.reviews = reviews, !.comments = comments,
                                    !.mergeable_state = state]]
  /\ queue = <<>>
  /\ metrics = NoMetrics
  /\ lastRun = -1
  /\ events = 0
  /\ last = NoIteration
  /\ warnLog = [number \in {1} |-> <<>>]
  /\ inputs = NoInputs
  /\ failure = None

NextTrail ==
  \/ StartRun
  \/ ProcessPull
  \/ Tick

SpecTrail == InitTrail /\ [][NextTrail]_vars

-----------------------------------------------------------------------------
(* Several pull requests with unchanging facts; a fetch or a write call may  *)
(* throw                                                                     *)

PullNumbers == {1, 2, 3}

\* a pull with conflicts, one with changes requested by a member, and one
\* with conflicts that bears a skip label
PullInputs ==
  { [NewPull EXCEPT !.mergeable_state = "dirty"],
    [NewPull EXCEPT !.reviews = << [ author_association |-> "MEMBER",
                                     state |-> "CHANGES_REQUESTED",
                                     submitted_at |-> Some(0) ] >>],
    [NewPull EXCEPT !.mergeable_state = "dirty", !.labels = {"no-stale"}] }

InitPulls ==
  /\ now = 0
  /\ props = [ staleDays |-> 2, responseDays |-> 1,
               mergeConflictWarningDays |-> Some(1), mergeConflictWarning |-> None,
               importantChecksRegex |-> None, skipLabels |-> Some({"no-stale"}),
               warnMessage |-> None, closeMessage |-> None,
               closeLabel |-> Some("closed-for-staleness"), dryRun |-> FALSE ]
  /\ repo \in [PullNumbers -> PullInputs]
  /\ queue = <<>>
  /\ metrics = NoMetrics
  /\ lastRun = -1
  /\ events = 0
  /\ last = NoIteration
  /\ warnLog = [number \in PullNumbers |-> <<>>]
  /\ inputs = NoInputs
  /\ failure = None

NextPulls ==
  \/ StartRun
  \/ ProcessPull
  \/ ProcessPullInterrupted
  \/ ProcessPullFetchFails
  \/ Tick

SpecPulls == InitPulls /\ [][NextPulls]_vars

-----------------------------------------------------------------------------
(* Vocabulary of the properties: the latest iteration, on the day it ran *)

Decided == last.pull # 0 /\ ~last.skipped

HasVerdict == Decided /\ IsSome(last.verdict)

Since == last.verdict[1].since

HasWarning == Decided /\ IsSome(last.warning)

Warning == last.warning[1]

\* t is more than `days` days old on the day of the iteration
OlderAt(t, days) == t + days < last.at

Issued(isCall(_)) == \E i \in DOMAIN last.calls : isCall(last.calls[i])

isCommentCall(call) == call.op = "createComment"

isUpdateClosedCall(call) == call.op = "update" /\ call.state = "closed"

isAddLabelsCall(call) == call.op = "addLabels"

isConflictWarningCall(call) ==
  call.op = "createComment" /\ call.body = DefaultMergeConflictWarning

isMarkedStale(comment) == includes(comment.body, marker("STALE PR"))

submittedMemberReviews(pull) ==
  { i \in DOMAIN pull.reviews :
      /\ pull.reviews[i].author_association = "MEMBER"
      /\ IsSome(pull.reviews[i].submitted_at) }

-----------------------------------------------------------------------------
(* C1 *)

\* C1: while a pull's verdict (reason and since) stays the same and no member
\* comment or review is added, the STALE PR warning is posted on it at most
\* once: no two posted warnings were for the same verdict with the same member
\* activity.
C1_WarnedOncePerEpisode ==
  \A number \in DOMAIN warnLog :
    \A i, j \in DOMAIN warnLog[number] :
      i < j => \/ warnLog[number][i].verdict # warnLog[number][j].verdict
               \/ warnLog[number][i].activity # warnLog[number][j].activity

-----------------------------------------------------------------------------
(* C2 *)

\* C2: a run closes a pull only if it has a stale verdict and a STALE PR-marked
\* comment of an earlier day exists that is not earlier than the verdict's
\* since and is older than responseDays; the closing iteration posts no STALE
\* PR warning, and every closed pull carries a STALE PR-marked comment.
C2_CloseOnlyAfterWarningAndGrace ==
  /\ (Decided /\ (last.action = "close" \/ Issued(isUpdateClosedCall))) =>
       /\ IsSome(last.verdict)
       /\ IsSome(last.warning)
       /\ Warning >= Since
       /\ OlderAt(Warning, props.responseDays)
       /\ \E i \in DOMAIN last.seen.comments :
            /\ isMarkedStale(last.seen.comments[i])
            /\ last.seen.comments[i].created_at = Warning
            /\ last.seen.comments[i].created_at < last.at
       /\ ~Issued(isStaleWarningCall)
  /\ \A number \in DOMAIN repo :
       ~repo[number].open =>
         \E i \in DOMAIN repo[number].comments : isMarkedStale(repo[number].comments[i])

C2_Witness ==
  /\ Decided
  /\ last.action = "close"
  /\ Issued(isUpdateClosedCall)
  /\ ~repo[last.pull].open

-----------------------------------------------------------------------------
(* C3 *)

\* C3: a pull that stays stale with unchanged facts is closed once its warning
\* is older than responseDays: an iteration that finds the verdict for which a
\* warning was posted more than responseDays ago, with no member activity
\* since, resolves Close.
C3_WarnedThenClosed ==
  (HasVerdict /\ \E i \in DOMAIN warnLog[last.pull] :
                   /\ warnLog[last.pull][i].verdict = last.verdict
                   /\ warnLog[last.pull][i].activity = memberActivity(last.seen)
                   /\ OlderAt(warnLog[last.pull][i].at, props.responseDays))
    => last.action = "close"

-----------------------------------------------------------------------------
(* C4 *)

\* the warning found is not superseded: it is not older than the verdict's
\* since and the engagement flag does not ask for a fresh warning
NotSuperseded == HasVerdict /\ HasWarning /\ Warning >= Since /\ last.reviewed

-----------------------------------------------------------------------------
(* C5 *)

\* C5: with a stale verdict and either no STALE PR-marked comment or a most
\* recent one older than the verdict's since, the action is Warn, however old
\* that earlier warning is.
C5_NewEpisodeWarns ==
  (HasVerdict /\ (~IsSome(last.warning) \/ Warning < Since)) =>
    /\ last.action = "warn"
    /\ Issued(isStaleWarningCall)
    /\ ~Issued(isUpdateClosedCall)

C5_Witness ==
  /\ HasVerdict
  /\ HasWarning
  /\ Warning < Since
  /\ OlderAt(Warning, props.responseDays)
  /\ last.reviewed
  /\ last.action = "warn"

-----------------------------------------------------------------------------
(* C6 *)

\* a member submitted a review after the most recent STALE PR warning
MemberReviewedAfterWarning ==
  /\ HasWarning
  /\ \E i \in submittedMemberReviews(last.seen) :
       last.seen.reviews[i].submitted_at[1] > Warning

\* a member commented after the most recent STALE PR warning
MemberCommentedAfterWarning ==
  /\ HasWarning
  /\ \E i \in DOMAIN last.seen.comments :
       /\ last.seen.comments[i].author_association = "MEMBER"
       /\ last.seen.comments[i].created_at > Warning

-----------------------------------------------------------------------------
(* C7 *)

\* C7: an iteration without a stale verdict resolves Nothing whatever the
\* warning record holds: it posts no STALE PR comment and no closing comment,
\* adds no label and does not close the pull.
C7_NoVerdictNoAction ==
  (Decided /\ ~IsSome(last.verdict)) =>
    /\ last.action = "nothing"
    /\ \A i \in DOMAIN last.calls : isConflictWarningCall(last.calls[i])
    /\ Len(last.calls) <= 1
    /\ repo[last.pull].open

C7_Witness ==
  /\ Decided
  /\ ~IsSome(last.verdict)
  /\ HasWarning
  /\ OlderAt(Warning, props.responseDays)
  /\ submittedMemberReviews(last.seen) # {}
  /\ last.at = now
  /\ queue = <<>>

-----------------------------------------------------------------------------
(* C8, C9, C10: the classifier's rules, read on the facts the iteration saw *)

SeenReviewState == reviewState(last.seen)

SeenLastCommit == lastCommit(last.seen)

SeenBuildFailTime == buildFailTime(last.seen)

\* a member change-request review state exists, a last commit exists and the
\* change request is older than staleDays
ChangesRequestedRule ==
  /\ IsSome(SeenReviewState)
  /\ SeenReviewState[1].state = "changes_requested"
  /\ IsSome(SeenLastCommit)
  /\ OlderAt(SeenReviewState[1].when, props.staleDays)

BuildFailingRule ==
  /\ IsSome(SeenBuildFailTime)
  /\ OlderAt(SeenBuildFailTime[1], props.staleDays)

MergeConflictsRule ==
  /\ last.seen.mergeable_state = "dirty"
  /\ IsSome(SeenLastCommit)
  /\ OlderAt(SeenLastCommit[1], props.staleDays)

Verdict(reason, since) == Some([reason |-> reason, since |-> since])

\* C8: when some rule matches, the one verdict is that of the first matching
\* rule in the order ChangesRequested, BuildFailing, MergeConflicts; when both
\* the changes-requested rule and the build-failing rule match it is
\* ChangesRequested since the change-request timestamp.
C8_FirstMatchingReason ==
  (Decided /\ (ChangesRequestedRule \/ BuildFailingRule \/ MergeConflictsRule)) =>
    last.verdict =
      IF ChangesRequestedRule
      THEN Verdict("CHANGES REQUESTED", SeenReviewState[1].when)
      ELSE IF BuildFailingRule
      THEN Verdict("BUILD FAILING", SeenBuildFailTime[1])
      ELSE Verdict("MERGE CONFLICTS", SeenLastCommit[1])

\* C9: the verdict is ChangesRequested exactly when a member change-request
\* review state exists, a last commit exists and the change request is older
\* than staleDays, and then since is the change-request timestamp; a pull whose
\* member reviews are all approvals gets no ChangesRequested verdict.
C9_ChangesRequestedVerdict ==
  Decided =>
    /\ (HasVerdict /\ last.verdict[1].reason = "CHANGES REQUESTED") <=> ChangesRequestedRule
    /\ ChangesRequestedRule => Since = SeenReviewState[1].when
    /\ (\A i \in submittedMemberReviews(last.seen) :
          last.seen.reviews[i].state = "APPROVED")
         => ~(HasVerdict /\ last.verdict[1].reason = "CHANGES REQUESTED")

\* C10: a pull whose last commit is newer than the member change-request
\* review gets no ChangesRequested verdict, and a pull warned for
\* ChangesRequested is not closed when commits were pushed after the warning.
C10_NothingHappenedSince ==
  (HasVerdict /\ last.verdict[1].reason = "CHANGES REQUESTED"
     /\ SeenReviewState[1].state = "changes_requested") =>
    /\ ~(SeenLastCommit[1] > SeenReviewState[1].when)
    /\ last.action = "close" => ~(SeenLastCommit[1] > Warning)

-----------------------------------------------------------------------------
(* C11 *)

\* the submitted member change-request reviews the iteration saw
SeenChangeRequests ==
  { i \in submittedMemberReviews(last.seen) :
      last.seen.reviews[i].state = "CHANGES_REQUESTED" }

OldestChangeRequest ==
  CHOOSE t \in { last.seen.reviews[i].submitted_at[1] : i \in SeenChangeRequests } :
    \A i \in SeenChangeRequests : t <= last.seen.reviews[i].submitted_at[1]

\* C11: when a pull has member change-request reviews, the review state's
\* timestamp is that of the oldest one, and a ChangesRequested verdict's since
\* is that timestamp: a second, later change request moves neither.
C11_OldestChangeRequestDates ==
  (Decided /\ SeenChangeRequests # {}) =>
    /\ SeenReviewState = Some([state |-> "changes_requested", when |-> OldestChangeRequest])
    /\ (IsSome(last.verdict) /\ last.verdict[1].reason = "CHANGES REQUESTED")
         => Since = OldestChangeRequest

-----------------------------------------------------------------------------
(* C12 *)

\* the finished results reported for the head commit under a name, from both
\* sources: when each was completed or updated and whether it is a failure
SeenResults(name) ==
  { [when |-> last.seen.check_runs[i].completed_at[1],
     failed |-> last.seen.check_runs[i].conclusion = "failure"] :
      i \in { j \in DOMAIN last.seen.check_runs :
                /\ last.seen.check_runs[j].name = name
                /\ IsSome(last.seen.check_runs[j].completed_at) } }
  \cup
  { [when |-> last.seen.statuses[i].updated_at[1],
     failed |-> last.seen.statuses[i].state = "failure"] :
      i \in { j \in DOMAIN last.seen.statuses : last.seen.statuses[j].context = name } }

MostRecentResults(name) ==
  { r \in SeenResults(name) : \A q \in SeenResults(name) : q.when <= r.when }

\* C12: the failing checks have one entry per name over check runs and commit
\* statuses together: whenever the most recent results of a name agree, the
\* name is in the failing set exactly if that most recent result is a failure,
\* and then `when` is that result's time; a name with no result is not in it.
C12_MostRecentResultPerName ==
  Decided =>
    LET failing == failingChecks(last.seen)
    IN /\ \A name \in DOMAIN failing : SeenResults(name) # {}
       /\ \A name \in CheckNameInputs :
            (SeenResults(name) # {} /\ Cardinality(MostRecentResults(name)) = 1) =>
              LET r == CHOOSE q \in MostRecentResults(name) : TRUE
              IN /\ name \in DOMAIN failing <=> r.failed
                 /\ name \in DOMAIN failing => failing[name].when = r.when

-----------------------------------------------------------------------------
(* C13 *)

\* the failing checks whose name the configured pattern matches
SeenImportantFailing ==
  { name \in DOMAIN failingChecks(last.seen) : name \in props.importantChecksRegex[1] }

SeenImportantFailTime ==
  CHOOSE t \in { failingChecks(last.seen)[name].when : name \in SeenImportantFailing } :
    \A name \in SeenImportantFailing : failingChecks(last.seen)[name].when <= t

IsVerdict(reason) == IsSome(last.verdict) /\ last.verdict[1].reason = reason

\* C13: with importantChecksRegex configured, a pull without a
\* ChangesRequested verdict gets the BuildFailing verdict exactly when some
\* failing check matches the pattern and the latest `when` among the matching
\* ones is older than staleDays, and since is that time; failing checks that
\* do not match neither cause nor date the verdict.
C13_OnlyImportantChecksCount ==
  (Decided /\ IsSome(props.importantChecksRegex) /\ ~IsVerdict("CHANGES REQUESTED")) =>
    IF SeenImportantFailing # {} /\ OlderAt(SeenImportantFailTime, props.staleDays)
    THEN last.verdict = Verdict("BUILD FAILING", SeenImportantFailTime)
    ELSE ~IsVerdict("BUILD FAILING")

\* a failing check outside the pattern, old enough, and no verdict
C13_Witness ==
  /\ Decided
  /\ IsSome(props.importantChecksRegex)
  /\ SeenImportantFailing = {}
  /\ \E name \in DOMAIN failingChecks(last.seen) :
       OlderAt(failingChecks(last.seen)[name].when, props.staleDays)
  /\ ~IsSome(last.verdict)
  /\ last.action = "nothing"

-----------------------------------------------------------------------------
(* C14 *)

\* C14: when neither the changes-requested branch nor the build-failing branch
\* yields a verdict, the merge-conflict flag is set and the last commit exists
\* and is older than staleDays, the verdict is MergeConflicts since the last
\* commit; without the flag there is never a MergeConflicts verdict.
C14_MergeConflictsVerdict ==
  Decided =>
    /\ ( /\ ~IsVerdict("CHANGES REQUESTED")
         /\ ~IsVerdict("BUILD FAILING")
         /\ last.seen.mergeable_state = "dirty"
         /\ IsSome(SeenLastCommit)
         /\ OlderAt(SeenLastCommit[1], props.staleDays) )
         => last.verdict = Verdict("MERGE CONFLICTS", SeenLastCommit[1])
    /\ last.seen.mergeable_state # "dirty" => ~IsVerdict("MERGE CONFLICTS")

\* a conflicting pull whose latest push, not its first commit, dates the verdict
C14_Witness ==
  /\ Decided
  /\ last.seen.mergeable_state = "dirty"
  /\ Len(last.seen.commits) > 1
  /\ last.verdict = Verdict("MERGE CONFLICTS", SeenLastCommit[1])
  /\ Since > 0

-----------------------------------------------------------------------------
(* C15 *)

ClaimedWarningDays ==
  IF IsSome(props.mergeConflictWarningDays) THEN props.mergeConflictWarningDays[1] ELSE 3

isConflictWarning(comment) == comment.body = DefaultMergeConflictWarning

isUnmarked(body) ==
  ~includes(body, marker("STALE PR")) /\ ~includes(body, marker("MERGE CONFLICTS"))

\* no higher-priority verdict, the merge-conflict flag set, and the last commit
\* older than mergeConflictWarningDays but not older than staleDays
EarlyWarningCase ==
  /\ ~IsVerdict("CHANGES REQUESTED")
  /\ ~IsVerdict("BUILD FAILING")
  /\ last.seen.mergeable_state = "dirty"
  /\ IsSome(SeenLastCommit)
  /\ ClaimedWarningDays # 0
  /\ OlderAt(SeenLastCommit[1], ClaimedWarningDays)
  /\ ~OlderAt(SeenLastCommit[1], props.staleDays)

\* C15: in every completed non-dry iteration of the early-warning case exactly
\* one write is issued, an unmarked conflict-warning comment, whatever the
\* trail already holds, and the verdict is none and the action Nothing; outside
\* that case no conflict warning is issued; with mergeConflictWarningDays = 0
\* no pull ever carries a conflict warning.
C15_EarlyConflictWarning ==
  /\ (Decided /\ ~last.failed /\ ~props.dryRun /\ last.at = now /\ EarlyWarningCase) =>
       /\ Len(last.calls) = 1
       /\ isConflictWarningCall(last.calls[1])
       /\ isUnmarked(last.calls[1].body)
       /\ ~IsSome(last.verdict)
       /\ last.action = "nothing"
  /\ (Decided /\ ~EarlyWarningCase) => ~Issued(isConflictWarningCall)
  /\ ClaimedWarningDays = 0 =>
       \A number \in DOMAIN repo :
         \A i \in DOMAIN repo[number].comments : ~isConflictWarning(repo[number].comments[i])

\* a second conflict warning, posted on a trail that already holds one
C15_Witness ==
  /\ Decided
  /\ EarlyWarningCase
  /\ Issued(isConflictWarningCall)
  /\ \E i \in DOMAIN last.seen.comments :
       /\ isConflictWarning(last.seen.comments[i])
       /\ last.seen.comments[i].created_at < last.at

-----------------------------------------------------------------------------
(* C16 *)

\* C16: a pull whose mergeable state is anything but 'dirty' gets no
\* MergeConflicts verdict and no conflict-warning comment.
C16_OnlyDirtyIsConflict ==
  (Decided /\ last.seen.mergeable_state # "dirty") =>
    /\ ~IsVerdict("MERGE CONFLICTS")
    /\ ~Issued(isConflictWarningCall)
    /\ \A i \in DOMAIN repo[last.pull].comments :
         ~isConflictWarning(repo[last.pull].comments[i])

\* a pull of unknown mergeability whose last commit is older than staleDays
C16_Witness ==
  /\ Decided
  /\ last.seen.mergeable_state = "unknown"
  /\ IsSome(SeenLastCommit)
  /\ OlderAt(SeenLastCommit[1], props.staleDays)
  /\ ~props.dryRun
  /\ ~IsSome(last.verdict)
  /\ last.calls = <<>>

-----------------------------------------------------------------------------
(* C17 *)

\* the pull the iteration visited bears a label of the configured skipLabels
BearsSkipLabel ==
  /\ IsSome(props.skipLabels)
  /\ last.seen.labels \cap props.skipLabels[1] # {}

\* C17: an iteration on a pull bearing a skip label issues no fetch and no write
\* and leaves the pull as it was, and the run's counters show one pull
\* processed and one skipped, nothing else; a pull without such a label is
\* not skipped.
C17_SkipLabelShortCircuits ==
  last.pull # 0 =>
    /\ BearsSkipLabel =>
         /\ last.skipped
         /\ last.reads = <<>>
         /\ last.calls = <<>>
         /\ repo[last.pull] = last.seen
         /\ last.at = lastRun =>
              metrics = [NoMetrics EXCEPT !.prsProcessed = 1, !.skipped = 1]
    /\ ~BearsSkipLabel => ~last.skipped /\ metrics.skipped = 0

\* a skipped pull that is old, has changes requested and is not dry-run
C17_Witness ==
  /\ last.pull # 0
  /\ BearsSkipLabel
  /\ last.skipped
  /\ ~props.dryRun
  /\ last.seen.reviews # <<>>
  /\ OlderAt(0, props.staleDays + props.responseDays)
  /\ metrics.skipped = 1

-----------------------------------------------------------------------------
(* C18 *)

\* the verdict of the classifier on what the iteration saw
ExpectedVerdict ==
  IF IsSome(SeenReviewState) /\ IsSome(SeenLastCommit)
       /\ OlderAt(SeenReviewState[1].when, props.staleDays)
  THEN Verdict("CHANGES REQUESTED", SeenReviewState[1].when)
  ELSE IF BuildFailingRule
  THEN Verdict("BUILD FAILING", SeenBuildFailTime[1])
  ELSE IF MergeConflictsRule
  THEN Verdict("MERGE CONFLICTS", SeenLastCommit[1])
  ELSE None

SeenStaleWarnings ==
  { last.seen.comments[i].created_at :
      i \in { j \in DOMAIN last.seen.comments : isMarkedStale(last.seen.comments[j]) } }

\* the action of the resolver on what the iteration saw
ExpectedAction ==
  IF ~IsSome(ExpectedVerdict) THEN "nothing"
  ELSE IF \/ SeenStaleWarnings = {}
          \/ \A w \in SeenStaleWarnings : w < ExpectedVerdict[1].since
          \/ submittedMemberReviews(last.seen) = {}
  THEN "warn"
  ELSE IF \E w \in SeenStaleWarnings :
            /\ \A v \in SeenStaleWarnings : v <= w
            /\ OlderAt(w, props.responseDays)
  THEN "close"
  ELSE "nothing"

ExpectedMetrics ==
  [ prsProcessed |-> 1,
    stalePrs |-> IF IsSome(ExpectedVerdict) THEN 1 ELSE 0,
    staleDueToChangesRequested |-> IF ExpectedVerdict # None /\ ExpectedVerdict[1].reason = "CHANGES REQUESTED" THEN 1 ELSE 0,
    staleDueToBuildFailing |-> IF ExpectedVerdict # None /\ ExpectedVerdict[1].reason = "BUILD FAILING" THEN 1 ELSE 0,
    staleDueToMergeConflicts |-> IF ExpectedVerdict # None /\ ExpectedVerdict[1].reason = "MERGE CONFLICTS" THEN 1 ELSE 0,
    warned |-> IF ExpectedAction = "warn" THEN 1 ELSE 0,
    closed |-> IF ExpectedAction = "close" THEN 1 ELSE 0,
    skipped |-> 0 ]

\* C18: a dry-run iteration issues no write call and leaves the pull as it
\* was; and in every completed iteration, dry or not, the verdict, the action
\* and the counters are those that follow from what the iteration saw.
C18_DryRunWritesNothing ==
  /\ (Decided /\ props.dryRun /\ last.at = now /\ lastRun = now) =>
       /\ last.calls = <<>>
       /\ repo[last.pull] = last.seen
  /\ (Decided /\ ~last.failed) =>
       /\ last.verdict = ExpectedVerdict
       /\ last.action = ExpectedAction
       /\ last.at = lastRun => metrics = ExpectedMetrics

\* a dry run that resolves Close, with a label configured, and writes nothing
C18_Witness ==
  /\ Decided
  /\ props.dryRun
  /\ last.at = now
  /\ lastRun = now
  /\ last.action = "close"
  /\ IsSome(props.closeLabel)
  /\ metrics.closed = 1
  /\ repo[last.pull].open
  /\ repo[last.pull].labels = NewPull.labels

-----------------------------------------------------------------------------
(* C19 *)

ClaimedCloseCalls ==
  << [op |-> "createComment", body |-> DefaultCloseMessage] >>
    \o (IF IsSome(props.closeLabel)
        THEN << [op |-> "addLabels", labels |-> {props.closeLabel[1]}] >>
        ELSE <<>>)
    \o << [op |-> "update", state |-> "closed"] >>

isClosingComment(comment) == comment.body = DefaultCloseMessage

\* C19: a non-dry Close issues, in this order, the closing comment, which
\* carries no STALE PR marker, the closeLabel if and only if one is configured,
\* and the update to closed; when a call throws, the calls issued are a prefix
\* of these; a closed pull carries a closing comment.
C19_CloseOrder ==
  /\ (Decided /\ last.action = "close" /\ ~props.dryRun /\ last.at = now /\ lastRun = now) =>
       /\ ~includes(DefaultCloseMessage, marker("STALE PR"))
       /\ IF last.failed
          THEN /\ Len(last.calls) < Len(ClaimedCloseCalls)
               /\ last.calls = SubSeq(ClaimedCloseCalls, 1, Len(last.calls))
          ELSE last.calls = ClaimedCloseCalls
  /\ \A number \in DOMAIN repo :
       ~repo[number].open =>
         \E i \in DOMAIN repo[number].comments : isClosingComment(repo[number].comments[i])

\* a Close without a closeLabel: two calls, and the pull is closed
C19_Witness ==
  /\ Decided
  /\ last.action = "close"
  /\ ~IsSome(props.closeLabel)
  /\ Len(last.calls) = 2
  /\ ~repo[last.pull].open

-----------------------------------------------------------------------------
(* C20 *)

\* the latest iteration resolved Close, posted the closing comment and failed
\* before closing the pull
PartialClose ==
  /\ Decided
  /\ last.failed
  /\ last.action = "close"
  /\ Issued(isCommentCall)
  /\ repo[last.pull].open

\* the facts the next iteration sees are those the failed one saw
FactsUnchanged ==
  /\ last'.pull = last.pull
  /\ last'.seen.reviews = last.seen.reviews
  /\ last'.seen.commits = last.seen.commits
  /\ last'.seen.check_runs = last.seen.check_runs
  /\ last'.seen.statuses = last.seen.statuses
  /\ last'.seen.mergeable_state = last.seen.mergeable_state

\* C20: after a partial Close the pull is still open, and the next iteration
\* on unchanged facts resolves Close again, never Warn or Nothing; unless it is
\* a dry run or fails in turn, it closes the pull.
C20_PartialCloseIsCompleted ==
  [][ (PartialClose /\ last' # last /\ FactsUnchanged) =>
        /\ last'.action = "close"
        /\ (~last'.failed /\ ~props.dryRun) => ~repo'[last.pull].open ]_vars

\* a pull closed by the run after a partial Close: two closing comments
C20_Witness ==
  /\ Decided
  /\ ~last.failed
  /\ last.action = "close"
  /\ ~repo[last.pull].open
  /\ Cardinality({ i \in DOMAIN repo[last.pull].comments :
                     isClosingComment(repo[last.pull].comments[i]) }) = 2

-----------------------------------------------------------------------------
(* C21 *)

\* the latest run was reported as failed
RunFailed == IsSome(failure)

\* C21: when a fetch or a write call for a pull throws, the run is reported as
\* failed with that error's message and the loop ends there: until the next
\* invocation no pull is processed or written to and no counter moves, and the
\* failing iteration itself leaves every other pull, the earlier ones with
\* their new comments included, as it was.
C21_FailureAbortsRun ==
  /\ [](RunFailed => /\ queue = <<>>
                     /\ last.failed
                     /\ last.at = lastRun
                     /\ failure = last.error)
  /\ [][ /\ (RunFailed /\ lastRun' = lastRun) =>
              (repo' = repo /\ metrics' = metrics /\ last' = last /\ failure' = failure)
         /\ (~RunFailed /\ failure' # None) =>
              \A number \in DOMAIN repo : number # last'.pull => repo'[number] = repo[number]
       ]_vars

postedToday(number) ==
  \E i \in DOMAIN repo[number].comments : repo[number].comments[i].created_at = now

\* the run failed on the second pull after commenting on the first, and the
\* third, stale with conflicts, has no comment of today
C21_Witness ==
  /\ RunFailed
  /\ last.pull = 2
  /\ last.at = now
  /\ postedToday(1)
  /\ repo[3].open
  /\ repo[3].mergeable_state = "dirty"
  /\ repo[3].labels = {}
  /\ now > props.staleDays
  /\ ~postedToday(3)

-----------------------------------------------------------------------------
(* C22 *)

RECURSIVE ascending(_)
ascending(S) ==
  IF S = {} THEN <<>>
  ELSE LET m == CHOOSE x \in S : \A y \in S : x <= y
       IN <<m>> \o ascending(S \ {m})

\* closed by an iteration of today's run
closedToday(number) ==
  /\ ~repo[number].open
  /\ \E i \in DOMAIN repo[number].comments :
       /\ isClosingComment(repo[number].comments[i])
       /\ repo[number].comments[i].created_at = now

\* C22: a run visits the pulls that are open when it starts oldest first, one
\* iteration per pull: the pulls still to visit are those from the oldest open
\* pull on, every iteration is on the oldest pull not yet visited, and when k
\* pulls have been processed the latest of them is the k-th oldest of the
\* pulls listed.
C22_OldestFirst ==
  /\ [](/\ \A i, j \in DOMAIN queue : i < j => queue[i] < queue[j]
        /\ (last.pull # 0 /\ last.at = now /\ lastRun = now) =>
             /\ \A i \in DOMAIN queue : last.pull < queue[i]
             /\ metrics.prsProcessed =
                  Cardinality({ number \in DOMAIN repo :
                                  /\ number <= last.pull
                                  /\ (repo[number].open \/ closedToday(number)) }))
  /\ [][ /\ lastRun' # lastRun =>
              queue' = ascending({ number \in DOMAIN repo : repo[number].open })
         /\ last' # last =>
              /\ last'.pull = Head(queue)
              /\ queue' = Tail(queue) \/ (last'.failed /\ queue' = <<>>)
       ]_vars

\* two pulls processed, the third still to visit
C22_Witness ==
  /\ last.pull = 2
  /\ last.at = now
  /\ lastRun = now
  /\ metrics.prsProcessed = 2
  /\ queue = <<3>>
  /\ postedToday(1)

-----------------------------------------------------------------------------
(* C29 *)

Counters == DOMAIN NoMetrics

\* C29: after every pull processed, stalePrs is the sum of the three
\* staleDueTo counters, warned + closed <= stalePrs, skipped <= prsProcessed
\* and stalePrs <= prsProcessed - skipped; within a run an iteration adds at
\* most one to each counter and takes nothing away.
C29_MetricsConsistent ==
  /\ [](~RunFailed =>
          /\ metrics.stalePrs = metrics.staleDueToChangesRequested
                                  + metrics.staleDueToBuildFailing
                                  + metrics.staleDueToMergeConflicts
          /\ metrics.warned + metrics.closed <= metrics.stalePrs
          /\ metrics.skipped <= metrics.prsProcessed
          /\ metrics.stalePrs <= metrics.prsProcessed - metrics.skipped)
  /\ [][ lastRun' = lastRun =>
           \A c \in Counters : metrics'[c] = metrics[c] \/ metrics'[c] = metrics[c] + 1 ]_vars

\* a run over three pulls: one skipped, one warned, one closed
C29_Witness ==
  /\ ~RunFailed
  /\ metrics.prsProcessed = 3
  /\ metrics.skipped = 1
  /\ metrics.stalePrs = 2
  /\ metrics.warned = 1
  /\ metrics.closed = 1

-----------------------------------------------------------------------------
(* C30 *)

Kinds(calls) ==
  { kind \in {"stale warning", "close", "conflict warning"} :
      \E i \in DOMAIN calls :
        \/ kind = "stale warning" /\ isStaleWarningCall(calls[i])
        \/ kind = "close" /\ (isUpdateClosedCall(calls[i]) \/ isAddLabelsCall(calls[i])
                                \/ (isCommentCall(calls[i]) /\ calls[i].body = DefaultCloseMessage))
        \/ kind = "conflict warning" /\ isConflictWarningCall(calls[i]) }

\* C30: an iteration changes no pull but the one it is on; the verdict and the
\* action of a completed iteration follow from what it saw of its own pull; and
\* an iteration issues writes of at most one kind: a STALE PR warning, a Close
\* or a conflict warning.
C30_IndependentTransactions ==
  /\ [](Decided =>
          /\ Cardinality(Kinds(last.calls)) <= 1
          /\ ~last.failed =>
               /\ last.verdict = ExpectedVerdict
               /\ last.action = ExpectedAction)
  /\ [][ \A number \in DOMAIN repo :
           repo'[number] # repo[number] => (last' # last /\ last'.pull = number) ]_vars

\* the three pulls of one run: one warned, one closed, one left alone
C30_Witness ==
  /\ last.pull = 3
  /\ last.at = now
  /\ ~RunFailed
  /\ Cardinality({ number \in DOMAIN repo : postedToday(number) }) = 2
  /\ Cardinality({ number \in DOMAIN repo : repo[number].open }) = 2
  /\ \E number \in DOMAIN repo : repo[number].comments = <<>>

-----------------------------------------------------------------------------
(* C23 *)

\* the decimal rendering of an integer: "0", or an optional "-" before digits
\* that do not begin with "0"
IsDecimalInteger(x) ==
  LET digits == IF x # <<>> /\ Head(x) = "-" THEN Tail(x) ELSE x
  IN /\ digits # <<>>
     /\ \A i \in DOMAIN digits : digits[i] \in {"0", "1", "2", "3", "4", "5", "6", "7", "8", "9"}
     /\ Head(digits) = "0" => x = <<"0">>

InvalidPatterns ==
  { <<"(", "l", "i", "n", "t">>, <<"l", "i", "n", "t", ")">> }

MalformedInputs ==
  \/ ~IsDecimalInteger(inputs.staleDays)
  \/ ~IsDecimalInteger(inputs.responseDays)
  \/ inputs.importantChecksRegex \in InvalidPatterns

-----------------------------------------------------------------------------
(* C24 *)

MarkerText(kind) ==
  CASE kind = "STALE PR" -> "<!--STALE PR-->"
    [] kind = "MERGE CONFLICTS" -> "<!--MERGE CONFLICTS-->"

MarkerKinds == {"STALE PR", "MERGE CONFLICTS"}

\* the comments of a log that carry the marker of a kind
Carrying(comments, kind) ==
  { i \in DOMAIN comments : \E k \in DOMAIN comments[i].body :
                              comments[i].body[k] = MarkerText(kind) }

isMarked(comment) ==
  \E kind \in MarkerKinds, k \in DOMAIN comment.body : comment.body[k] = MarkerText(kind)

\* C24: the warning record of a comment log has, for each marker kind, the
\* creation time of the most recent comment carrying that kind's marker, and
\* no entry for a kind no comment carries; the log without its unmarked
\* comments has the same record; and the iteration's warning is the record's
\* STALE PR entry.
C24_MostRecentWarningPerKind ==
  Decided =>
    LET comments == last.seen.comments
        record == mostRecentWarnings(comments)
    IN /\ DOMAIN record = { kind \in MarkerKinds : Carrying(comments, kind) # {} }
       /\ \A kind \in DOMAIN record :
            /\ \E i \in Carrying(comments, kind) : record[kind] = comments[i].created_at
            /\ \A i \in Carrying(comments, kind) : comments[i].created_at <= record[kind]
       /\ mostRecentWarnings(SelectSeq(comments, isMarked)) = record
       /\ last.warning = IF "STALE PR" \in DOMAIN record THEN Some(record["STALE PR"]) ELSE None

\* a log with two STALE PR warnings of different days, a conflict marker and
\* an unmarked comment
C24_Witness ==
  /\ Decided
  /\ \E i, j \in Carrying(last.seen.comments, "STALE PR") :
       last.seen.comments[i].created_at < last.seen.comments[j].created_at
  /\ Carrying(last.seen.comments, "MERGE CONFLICTS") # {}
  /\ \E i \in DOMAIN last.seen.comments : ~isMarked(last.seen.comments[i])

-----------------------------------------------------------------------------
(* C25 *)

\* a comment or a review of the pull is by a member
MemberEngaged ==
  \/ \E i \in DOMAIN last.seen.comments : last.seen.comments[i].author_association = "MEMBER"
  \/ \E i \in DOMAIN last.seen.reviews : last.seen.reviews[i].author_association = "MEMBER"

\* C25: the member-engagement flag of an iteration with a verdict is true
\* exactly when a comment or a review of the pull is by a member; with a
\* member comment and no member review it is true.
C25_EngagementByCommentOrReview ==
  (HasVerdict /\ ~last.failed) => (last.reviewed <=> MemberEngaged)

-----------------------------------------------------------------------------
(* C27 *)

\* C27: the age tests are strict. A verdict's since is more than staleDays
\* before the run, and a conflicted pull with no review state and no failing
\* build has its verdict exactly when its last commit is more than staleDays
\* old; a pull is closed only when its warning is more than responseDays old;
\* the early conflict warning is posted only when the last commit is more than
\* the warning threshold old. At exactly N days none of them applies.
C27_AgeTestsStrict ==
  (Decided /\ ~last.failed) =>
    /\ HasVerdict => Since + props.staleDays < last.at
    /\ ( /\ last.seen.mergeable_state = "dirty"
         /\ ~IsSome(SeenReviewState)
         /\ ~IsSome(SeenBuildFailTime)
         /\ IsSome(SeenLastCommit) )
         => (HasVerdict <=> SeenLastCommit[1] + props.staleDays < last.at)
    /\ last.action = "close" => Warning + props.responseDays < last.at
    /\ Issued(isConflictWarningCall) => SeenLastCommit[1] + ClaimedWarningDays < last.at

\* a conflicted pull whose last commit is exactly staleDays old: no verdict
C27_Witness ==
  /\ Decided
  /\ ~last.failed
  /\ last.seen.mergeable_state = "dirty"
  /\ IsSome(SeenLastCommit)
  /\ SeenLastCommit[1] + props.staleDays = last.at
  /\ ~IsSome(last.verdict)
  /\ last.action = "nothing"

-----------------------------------------------------------------------------
(* C26 *)

\* the message with the reason in the place of the word STATE, where it first
\* occurs
RECURSIVE SubstituteState(_, _)
SubstituteState(text, reason) ==
  IF text = <<>> THEN <<>>
  ELSE IF Head(text) = "STATE" THEN <<reason>> \o Tail(text)
  ELSE <<Head(text)>> \o SubstituteState(Tail(text), reason)

Warned == Decided /\ ~last.failed /\ last.action = "warn"

\* C26: after a Warn the pull's newest comment is the warning: it begins with
\* the STALE PR marker, carries the configured message with the verdict's
\* reason in the place of STATE, where it first occurs (or the default message, which names the
\* reason), and was created at the run, not earlier than the verdict's since;
\* the warning record of the trail, and the warning the next iteration finds,
\* is that creation time.
C26_WarnRoundTrip ==
  /\ [](Warned =>
          LET comments == repo[last.pull].comments
              posted == Last(comments)
          IN /\ comments # <<>>
             /\ Head(posted.body) = "<!--STALE PR-->"
             /\ IF IsSome(props.warnMessage)
                THEN Tail(posted.body) = SubstituteState(props.warnMessage[1], last.verdict[1].reason)
                ELSE \E k \in DOMAIN posted.body : posted.body[k] = last.verdict[1].reason
             /\ posted.created_at = last.at
             /\ posted.created_at >= Since
             /\ mostRecentWarnings(comments)["STALE PR"] = posted.created_at)
  /\ [][ (Warned /\ last' # last) => last'.warning = Some(last.at) ]_vars

\* the run after a Warn with a configured message: it finds the warning of the
\* day before
C26_Witness ==
  /\ Decided
  /\ IsSome(props.warnMessage)
  /\ HasVerdict
  /\ last.warning = Some(last.at - 1)
  /\ \E i \in DOMAIN last.seen.comments :
       /\ last.seen.comments[i].created_at = Warning
       /\ last.seen.comments[i].body =
            <<"<!--STALE PR-->", "This PR is", last.verdict[1].reason, "- please update it.">>

-----------------------------------------------------------------------------
(* C28 *)

isByMember(review) == review.author_association = "MEMBER"

\* what the iteration saw, without the reviews of authors who are not members
SeenWithoutNonMemberReviews ==
  [last.seen EXCEPT !.reviews = SelectSeq(@, isByMember)]

\* C28: the review state, the verdict and the action of an iteration are those
\* of the same pull without its non-member reviews.
C28_NonMemberReviewsIgnored ==
  (Decided /\ last.at = now) =>
    LET stripped == SeenWithoutNonMemberReviews
        verdict == staleVerdict(stripped)
    IN /\ reviewState(last.seen) = reviewState(stripped)
       /\ last.verdict = verdict
       /\ last.reviewed = (IsSome(verdict) /\ memberReviewed(stripped, stripped.comments))
       /\ last.action = resolveAction(verdict,
                                      staleWarning(mostRecentWarnings(stripped.comments)),
                                      IsSome(verdict) /\ memberReviewed(stripped, stripped.comments))

\* a pull whose only reviews are a change request and an approval by
\* non-members, both older than staleDays: no verdict
C28_Witness ==
  /\ Decided
  /\ last.at = now
  /\ Len(last.seen.reviews) = 2
  /\ \A i \in DOMAIN last.seen.reviews :
       /\ ~isByMember(last.seen.reviews[i])
       /\ OlderAt(last.seen.reviews[i].submitted_at[1], props.staleDays)
  /\ \E i, j \in DOMAIN last.seen.reviews :
       last.seen.reviews[i].state # last.seen.reviews[j].state
  /\ ~IsSome(last.verdict)
  /\ last.action = "nothing"

-----------------------------------------------------------------------------
(* C31 *)

Queued == { queue[i] : i \in DOMAIN queue }

\* the pull was closed by this program: its newest comment is the closing one
ClosedByRun(number) ==
  /\ ~repo[number].open
  /\ repo[number].comments # <<>>
  /\ Last(repo[number].comments).body = DefaultCloseMessage

\* C31: close is terminal. A pull waiting in a run's list is open; a closed
\* pull is not listed by a run that starts, and no step changes its comments,
\* its labels, its state or its log of warnings; and every iteration, with
\* whatever calls it issues, is on the pull at the head of the list, which is
\* open.
C31_CloseIsTerminal ==
  /\ [](\A number \in Queued : repo[number].open)
  /\ [][ \A number \in DOMAIN repo :
           ~repo[number].open =>
             /\ repo'[number] = repo[number]
             /\ warnLog'[number] = warnLog[number]
             /\ number \notin { queue'[i] : i \in DOMAIN queue' } ]_vars
  /\ [][ (last' # last /\ last'.pull # 0) =>
           /\ queue # <<>>
           /\ last'.pull = Head(queue)
           /\ repo[last'.pull].open ]_vars

\* a pull this program closed on an earlier day, and a later run that has
\* gone through its list and written to another pull
C31_Witness ==
  /\ queue = <<>>
  /\ Decided
  /\ last.at = lastRun
  /\ last.calls # <<>>
  /\ \E number \in DOMAIN repo :
       /\ ClosedByRun(number)
       /\ Last(repo[number].comments).created_at < lastRun
       /\ last.pull # number

====
